---------------------------- MODULE Spec2Model ----------------------------
(***************************************************************************)
(* Model of the MTL2 touchscreen driver (mtl2_touchscreen_driver_v2.c):    *)
(*   - create_coord, the 12-bit coordinate decoder;                        *)
(*   - mtl2_touchscreen_irq, the interrupt handler (four bus reads, four   *)
(*     input events);                                                      *)
(*   - mtl2_touchscreen_init / _probe / _exit, the module lifecycle.       *)
(* The insmod/rmmod thread and the interrupt handler are two processes     *)
(* that share the globals data.client, data.input and mtl2_irq.            *)
(***************************************************************************)
EXTENDS Integers, Sequences, FiniteSets, TLC

(***************************************************************************)
(* Bounds of the model and inputs of the environment.                      *)
(***************************************************************************)
\* How many rising edges the environment raises in one behaviour.
MaxEdges == 2

\* What i2c_smbus_read_byte_data may return: a data byte, or a negative
\* errno (-5 is -EIO) when the transfer fails.
BusReturns == {0, 1, 44, 100, 255, -5}

\* What input_register_device may return when it fails (-EINVAL, -ENOMEM).
RegErrs == {-22, -12}

\* What gpio_to_irq may return: a line id, or a negative errno.
IrqLines == {7}
GpioToIrqErrs == {-22}

\* The value an execution of probe that flows off the end of the function
\* (line 196) may hand to its caller: 0 or something else.
FallOffValues == {0, 1}

(***************************************************************************)
(* Program constants.                                                      *)
(***************************************************************************)
TOUCH1_XH == 3
TOUCH1_XL == 4
TOUCH1_YH == 5
TOUCH1_YL == 6
ENODEV == 19
ENXIO == 6
ENOMEM == 12
U8Max == 255

\* Narrowing of an int to u8 / u16, as the assignments to u8 and u16 do.
U8(v) == v % 256
U16(v) == v % 65536

(***************************************************************************)
(* The decoder (lines 38-40, 86-97).                                       *)
(***************************************************************************)
\* #define BIT_CHECK(a, b) (!!((a) & (1UL << (b))))
BIT_CHECK(a, b) == (a \div (2 ^ b)) % 2 = 1

\* #define BIT_SET(a, b) ((a) |= (1UL << (b))): the new value of a.
BIT_SET(a, b) == IF BIT_CHECK(a, b) THEN a ELSE a + 2 ^ b

\* A first loop that stops one bit short (i < 7).
RECURSIVE CoordLsbLoopSevenBits(_, _, _)
CoordLsbLoopSevenBits(coord, lsb, i) ==
    IF i < 7
    THEN CoordLsbLoopSevenBits(
             IF BIT_CHECK(lsb, i) THEN U16(BIT_SET(coord, i)) ELSE coord,
             lsb, i + 1)
    ELSE coord

\* for(i = 0; i < 8; i++) if(BIT_CHECK(lsb, i)) BIT_SET(coord, i);
RECURSIVE CoordLsbLoop(_, _, _)
CoordLsbLoop(coord, lsb, i) ==
    IF i < 8
    THEN CoordLsbLoop(IF BIT_CHECK(lsb, i) THEN U16(BIT_SET(coord, i)) ELSE coord,
                      lsb, i + 1)
    ELSE coord

\* A decoder that copies all eight bits of msb (bits 8..15).
RECURSIVE CoordMsbLoopFullByte(_, _, _)
CoordMsbLoopFullByte(coord, msb, i) ==
    IF i < 16
    THEN CoordMsbLoopFullByte(
             IF BIT_CHECK(msb, i - 8) THEN U16(BIT_SET(coord, i)) ELSE coord,
             msb, i + 1)
    ELSE coord

\* for(i = 8; i < 12; i++) if(BIT_CHECK(msb, i - 8)) BIT_SET(coord, i);
RECURSIVE CoordMsbLoop(_, _, _)
CoordMsbLoop(coord, msb, i) ==
    IF i < 12
    THEN CoordMsbLoop(IF BIT_CHECK(msb, i - 8) THEN U16(BIT_SET(coord, i)) ELSE coord,
                      msb, i + 1)
    ELSE coord

\* static u16 create_coord(u8 msb, u8 lsb)
create_coord(msb, lsb) == CoordMsbLoop(CoordLsbLoop(0, lsb, 0), msb, 8)

(***************************************************************************)
(* Bitwise operators on naturals, for stating the decoder's contract.      *)
(***************************************************************************)
RECURSIVE BitAnd(_, _)
BitAnd(a, b) ==
    IF a = 0 \/ b = 0 THEN 0
    ELSE (IF a % 2 = 1 /\ b % 2 = 1 THEN 1 ELSE 0) + 2 * BitAnd(a \div 2, b \div 2)

RECURSIVE BitOr(_, _)
BitOr(a, b) ==
    IF a = 0 THEN b
    ELSE IF b = 0 THEN a
    ELSE (IF a % 2 = 1 \/ b % 2 = 1 THEN 1 ELSE 0) + 2 * BitOr(a \div 2, b \div 2)

Shl(a, n) == a * 2 ^ n

\* low | ((high & 0x0F) << 8)
Decode(high, low) == BitOr(low, Shl(BitAnd(high, 15), 8))

(***************************************************************************)
(* State.                                                                  *)
(***************************************************************************)
VARIABLES
    pc,               \* position of the insmod/rmmod thread
    client,           \* data.client: "none", "NULL", "held", "released"
    data_input,       \* data.input: "NULL" or "ptr"
    inputDev,         \* the input device: "none", "allocated", "registered",
                      \*   "unregistered", "freed"
    gpioOwner,        \* who holds INT_GPIO_PIN: "none", "self", "other"
    mtl2_irq,         \* static int mtl2_irq
    handlerInstalled, \* mtl2_touchscreen_irq is installed on line mtl2_irq
    irqDisabled,      \* the line has been disabled by disable_irq
    probeRet,         \* <<what probe returned>>, <<>> before it returns
    failedStep,       \* the Attach step that failed, "none" if none did
    attachLog,        \* the Attach steps attempted, in order
    acqLog,           \* the resources acquired, in order
    relLog,           \* the release steps Detach executed, in order
    detachRaced,      \* Detach started while a handler invocation was in flight
    irq_pc,           \* position of the interrupt handler
    edges,            \* handler invocations so far
    x_h, x_l, y_h, y_l, x, y,   \* the handler's locals
    reads,            \* the bus reads of the current/last invocation
    events,           \* the sink events of the current/last invocation
    dec_msb, dec_lsb, dec_coord \* a call of create_coord on its own:
                      \*   its arguments and <<its result>>

lifeVars == <<pc, client, data_input, inputDev, gpioOwner, mtl2_irq,
              handlerInstalled, irqDisabled, probeRet, failedStep,
              attachLog, acqLog, relLog, detachRaced>>
irqVars == <<irq_pc, edges, x_h, x_l, y_h, y_l, x, y, reads, events>>
decVars == <<dec_msb, dec_lsb, dec_coord>>
vars == <<lifeVars, irqVars, decVars>>

\* The six Attach steps in the order of lines 145..190.
AttachOrder == <<"gpio_request", "gpio_to_irq", "request_irq",
                 "check_functionality", "allocate_device", "register_device">>

\* The four release steps of Detach in the order of lines 223..226.
DetachOrder == <<"irq", "gpio", "input", "client">>

\* An oops in interrupt context halts the machine.
Running == irq_pc # "oops"

InFlight == irq_pc \notin {"idle", "oops"}

Released(step) == \E i \in 1..Len(relLog) : relLog[i].step = step

LifeInit ==
    /\ pc = "init"
    /\ client = "none"
    /\ data_input = "NULL"
    /\ inputDev = "none"
    /\ gpioOwner \in {"none", "other"}
    /\ mtl2_irq = -1
    /\ handlerInstalled = FALSE
    /\ irqDisabled = FALSE
    /\ probeRet = <<>>
    /\ failedStep = "none"
    /\ attachLog = <<>>
    /\ acqLog = <<>>
    /\ relLog = <<>>
    /\ detachRaced = FALSE

IrqInit ==
    /\ irq_pc = "idle"
    /\ edges = 0
    /\ x_h = 0 /\ x_l = 0 /\ y_h = 0 /\ y_l = 0 /\ x = 0 /\ y = 0
    /\ reads = <<>>
    /\ events = <<>>

Init ==
    /\ LifeInit
    /\ IrqInit
    /\ dec_msb = 0 /\ dec_lsb = 0 /\ dec_coord = <<>>


(***************************************************************************)
(* Module init (lines 206-217).                                            *)
(***************************************************************************)
\* data.client = i2c_new_device(i2c_adapt, &mtl2_touchscreen_board_info);
\* i2c_new_device hands back NULL when it cannot create the device.
InitNewDevice ==
    /\ Running /\ pc = "init"
    /\ \E ok \in BOOLEAN :
          /\ client' = IF ok THEN "held" ELSE "NULL"
          /\ acqLog' = IF ok THEN Append(acqLog, "client") ELSE acqLog
    /\ pc' = "add_driver"
    /\ UNCHANGED <<data_input, inputDev, gpioOwner, mtl2_irq, handlerInstalled,
                   irqDisabled, probeRet, failedStep, attachLog, relLog,
                   detachRaced>>
    /\ UNCHANGED <<irqVars, decVars>>

\* i2c_add_driver(&mtl2_touchscreen_driver): the driver core calls .probe,
\* synchronously, for the device created above; with no device, no probe.
InitAddDriver ==
    /\ Running /\ pc = "add_driver"
    /\ pc' = IF client = "held" THEN "probe_gpio_request" ELSE "init_return"
    /\ UNCHANGED <<client, data_input, inputDev, gpioOwner, mtl2_irq,
                   handlerInstalled, irqDisabled, probeRet, failedStep,
                   attachLog, acqLog, relLog, detachRaced>>
    /\ UNCHANGED <<irqVars, decVars>>

\* return 0; (line 216) whatever probe returned.
InitReturn ==
    /\ Running /\ pc = "init_return"
    /\ pc' = "loaded"
    /\ UNCHANGED <<client, data_input, inputDev, gpioOwner, mtl2_irq,
                   handlerInstalled, irqDisabled, probeRet, failedStep,
                   attachLog, acqLog, relLog, detachRaced>>
    /\ UNCHANGED <<irqVars, decVars>>

(***************************************************************************)
(* Attach: mtl2_touchscreen_probe (lines 138-196).                         *)
(***************************************************************************)
\* The value probe returns when the step fails (lines 148, 154, 163, 169,
\* 175, 194); regErr is what input_register_device returned.
AttachError(step, regErr) ==
    CASE step = "gpio_request"        -> -1
      [] step = "gpio_to_irq"         -> -1
      [] step = "request_irq"         -> -ENODEV
      [] step = "check_functionality" -> -ENXIO
      [] step = "allocate_device"     -> -ENOMEM
      [] step = "register_device"     -> regErr

\* A probe that goes on to the next step although this one failed.
ProbeFailGoesOn(step, regErr) ==
    /\ probeRet' = probeRet
    /\ failedStep' = step
    /\ pc' = IF step = "register_device" THEN "probe_end"
             ELSE "probe_register_device"

\* A failing step returns at once; the driver core then releases the
\* device-managed (devm_) resources of the device.
ProbeFail(step, regErr) ==
    /\ probeRet' = <<AttachError(step, regErr)>>
    /\ failedStep' = step
    /\ pc' = "devres_input"

\* if(gpio_request(INT_GPIO_PIN, NULL)) { ...; return -1; }
ProbeGpioRequest ==
    /\ Running /\ pc = "probe_gpio_request"
    /\ attachLog' = Append(attachLog, "gpio_request")
    /\ IF gpioOwner = "none"
       THEN /\ gpioOwner' = "self"
            /\ acqLog' = Append(acqLog, "gpio")
            /\ pc' = "probe_gpio_to_irq"
            /\ UNCHANGED <<probeRet, failedStep>>
       ELSE /\ ProbeFail("gpio_request", 0)
            /\ UNCHANGED <<gpioOwner, acqLog>>
    /\ UNCHANGED <<client, data_input, inputDev, mtl2_irq, handlerInstalled,
                   irqDisabled, relLog, detachRaced>>
    /\ UNCHANGED <<irqVars, decVars>>

\* if((mtl2_irq = gpio_to_irq(INT_GPIO_PIN)) < 0) { ...; return -1; }
ProbeGpioToIrq ==
    /\ Running /\ pc = "probe_gpio_to_irq"
    /\ attachLog' = Append(attachLog, "gpio_to_irq")
    /\ \E r \in IrqLines \cup GpioToIrqErrs :
          /\ mtl2_irq' = r
          /\ IF r < 0
             THEN ProbeFail("gpio_to_irq", 0)
             ELSE /\ pc' = "probe_request_irq"
                  /\ UNCHANGED <<probeRet, failedStep>>
    /\ UNCHANGED <<client, data_input, inputDev, gpioOwner, handlerInstalled,
                   irqDisabled, acqLog, relLog, detachRaced>>
    /\ UNCHANGED <<irqVars, decVars>>

\* if(devm_request_irq(&client->dev, mtl2_irq, mtl2_touchscreen_irq,
\*     IRQF_TRIGGER_RISING, "mtl2_irq", (void* )&data)) { ...; return -ENODEV; }
\* From here on a rising edge invokes the handler.
ProbeRequestIrq ==
    /\ Running /\ pc = "probe_request_irq"
    /\ attachLog' = Append(attachLog, "request_irq")
    /\ \E ok \in BOOLEAN :
          IF ok
          THEN /\ handlerInstalled' = TRUE
               /\ acqLog' = Append(acqLog, "irq")
               /\ pc' = "probe_check_functionality"
               /\ UNCHANGED <<probeRet, failedStep>>
          ELSE /\ ProbeFail("request_irq", 0)
               /\ UNCHANGED <<handlerInstalled, acqLog>>
    /\ UNCHANGED <<client, data_input, inputDev, gpioOwner, mtl2_irq,
                   irqDisabled, relLog, detachRaced>>
    /\ UNCHANGED <<irqVars, decVars>>

\* if(!i2c_check_functionality(client->adapter, I2C_FUNC_I2C)) { ...; return -ENXIO; }
ProbeCheckFunctionality ==
    /\ Running /\ pc = "probe_check_functionality"
    /\ attachLog' = Append(attachLog, "check_functionality")
    /\ \E ok \in BOOLEAN :
          IF ok
          THEN /\ pc' = "probe_allocate_device"
               /\ UNCHANGED <<probeRet, failedStep>>
          ELSE ProbeFail("check_functionality", 0)
    /\ UNCHANGED <<client, data_input, inputDev, gpioOwner, mtl2_irq,
                   handlerInstalled, irqDisabled, acqLog, relLog, detachRaced>>
    /\ UNCHANGED <<irqVars, decVars>>

\* input = devm_input_allocate_device(&client->dev);
\* if(!input) { return -ENOMEM; }   data.input = input;   (lines 172-188)
ProbeAllocateDevice ==
    /\ Running /\ pc = "probe_allocate_device"
    /\ attachLog' = Append(attachLog, "allocate_device")
    /\ \E ok \in BOOLEAN :
          IF ok
          THEN /\ inputDev' = "allocated"
               /\ data_input' = "ptr"
               /\ acqLog' = Append(acqLog, "input")
               /\ pc' = "probe_register_device"
               /\ UNCHANGED <<probeRet, failedStep>>
          ELSE /\ ProbeFail("allocate_device", 0)
               /\ UNCHANGED <<inputDev, data_input, acqLog>>
    /\ UNCHANGED <<client, gpioOwner, mtl2_irq, handlerInstalled, irqDisabled,
                   relLog, detachRaced>>
    /\ UNCHANGED <<irqVars, decVars>>

\* error = input_register_device(data.input);
\* if(error) { ...; return error; }
ProbeRegisterDevice ==
    /\ Running /\ pc = "probe_register_device"
    /\ attachLog' = Append(attachLog, "register_device")
    /\ \E error \in RegErrs \cup {0} :
          IF error = 0
          THEN /\ inputDev' = "registered"
               /\ pc' = "probe_end"
               /\ UNCHANGED <<probeRet, failedStep>>
          ELSE /\ ProbeFail("register_device", error)
               /\ UNCHANGED inputDev
    /\ UNCHANGED <<client, data_input, gpioOwner, mtl2_irq, handlerInstalled,
                   irqDisabled, acqLog, relLog, detachRaced>>
    /\ UNCHANGED <<irqVars, decVars>>

\* Line 196: control reaches the closing brace of a function returning int
\* with no return statement; the caller reads a value nothing has set.  The
\* driver core takes 0 for a bound device and anything else for a failed
\* probe.
ProbeFallOffEnd ==
    /\ Running /\ pc = "probe_end"
    /\ \E r \in FallOffValues :
          /\ probeRet' = <<r>>
          /\ pc' = IF r = 0 THEN "init_return" ELSE "devres_input"
    /\ UNCHANGED <<client, data_input, inputDev, gpioOwner, mtl2_irq,
                   handlerInstalled, irqDisabled, failedStep, attachLog,
                   acqLog, relLog, detachRaced>>
    /\ UNCHANGED <<irqVars, decVars>>

\* A release of managed resources that gives the pin back too, as if line
\* 145 had reserved it with devm_gpio_request.
DevresReleaseInputAndGpio ==
    /\ Running /\ pc = "devres_input"
    /\ inputDev' = IF inputDev \in {"allocated", "registered"} THEN "freed"
                   ELSE inputDev
    /\ gpioOwner' = IF gpioOwner = "self" THEN "none" ELSE gpioOwner
    /\ pc' = "devres_irq"
    /\ UNCHANGED <<client, data_input, mtl2_irq, handlerInstalled,
                   irqDisabled, probeRet, failedStep, attachLog, acqLog,
                   relLog, detachRaced>>
    /\ UNCHANGED <<irqVars, decVars>>

\* After a failed probe the driver core releases the managed resources,
\* last acquired first: the input device of devm_input_allocate_device
\* (line 172) is unregistered and freed; data.input keeps pointing at it.
DevresReleaseInput ==
    /\ Running /\ pc = "devres_input"
    /\ inputDev' = IF inputDev \in {"allocated", "registered"} THEN "freed"
                   ELSE inputDev
    /\ pc' = "devres_irq"
    /\ UNCHANGED <<client, data_input, gpioOwner, mtl2_irq, handlerInstalled,
                   irqDisabled, probeRet, failedStep, attachLog, acqLog,
                   relLog, detachRaced>>
    /\ UNCHANGED <<irqVars, decVars>>

\* ... then the interrupt of devm_request_irq (line 159) is freed; free_irq
\* waits for a handler invocation in flight.
DevresFreeIrq ==
    /\ Running /\ pc = "devres_irq"
    /\ handlerInstalled => irq_pc = "idle"
    /\ handlerInstalled' = FALSE
    /\ pc' = "init_return"
    /\ UNCHANGED <<client, data_input, inputDev, gpioOwner, mtl2_irq,
                   irqDisabled, probeRet, failedStep, attachLog, acqLog,
                   relLog, detachRaced>>
    /\ UNCHANGED <<irqVars, decVars>>


(***************************************************************************)
(* The interrupt handler: mtl2_touchscreen_irq (lines 113-135).            *)
(***************************************************************************)
\* A rising edge on the line invokes the handler, if it is installed and the
\* line is not disabled; the platform runs one invocation at a time.
Edge ==
    /\ Running /\ irq_pc = "idle"
    /\ handlerInstalled /\ ~irqDisabled
    /\ edges < MaxEdges
    /\ edges' = edges + 1
    /\ irq_pc' = "read_xh"
    /\ reads' = <<>>
    /\ events' = <<>>
    /\ UNCHANGED <<x_h, x_l, y_h, y_l, x, y>>
    /\ UNCHANGED <<lifeVars, decVars>>

\* One i2c_smbus_read_byte_data(data.client, reg) returning ret.
BusRead(reg, ret) ==
    [reg |-> reg, ret |-> ret, released |-> Released("client")]

\* A handler that takes the high byte of X from the Y-high register.
IrqReadXHFromY ==
    /\ irq_pc = "read_xh"
    /\ \E ret \in BusReturns :
          /\ x_h' = U8(ret)
          /\ reads' = Append(reads, BusRead(TOUCH1_YH, ret))
    /\ irq_pc' = "read_xl"
    /\ UNCHANGED <<edges, x_l, y_h, y_l, x, y, events>>
    /\ UNCHANGED <<lifeVars, decVars>>

\* x_h = i2c_smbus_read_byte_data(data.client, TOUCH1_XH);  the s32 result
\* is stored in a u8.
IrqReadXH ==
    /\ irq_pc = "read_xh"
    /\ \E ret \in BusReturns :
          /\ x_h' = U8(ret)
          /\ reads' = Append(reads, BusRead(TOUCH1_XH, ret))
    /\ irq_pc' = "read_xl"
    /\ UNCHANGED <<edges, x_l, y_h, y_l, x, y, events>>
    /\ UNCHANGED <<lifeVars, decVars>>

\* x_l = i2c_smbus_read_byte_data(data.client, TOUCH1_XL);
\* x = create_coord(x_h, x_l);
IrqReadXL ==
    /\ irq_pc = "read_xl"
    /\ \E ret \in BusReturns :
          /\ x_l' = U8(ret)
          /\ reads' = Append(reads, BusRead(TOUCH1_XL, ret))
    /\ x' = create_coord(x_h, x_l')
    /\ irq_pc' = "read_yh"
    /\ UNCHANGED <<edges, x_h, y_h, y_l, y, events>>
    /\ UNCHANGED <<lifeVars, decVars>>

\* A handler that gives up when the read of Y-high fails.
IrqReadYHStopsOnError ==
    /\ irq_pc = "read_yh"
    /\ \E ret \in BusReturns :
          /\ y_h' = U8(ret)
          /\ reads' = Append(reads, BusRead(TOUCH1_YH, ret))
          /\ irq_pc' = IF ret < 0 THEN "idle" ELSE "read_yl"
    /\ UNCHANGED <<edges, x_h, x_l, y_l, x, y, events>>
    /\ UNCHANGED <<lifeVars, decVars>>

\* y_h = i2c_smbus_read_byte_data(data.client, TOUCH1_YH);
IrqReadYH ==
    /\ irq_pc = "read_yh"
    /\ \E ret \in BusReturns :
          /\ y_h' = U8(ret)
          /\ reads' = Append(reads, BusRead(TOUCH1_YH, ret))
    /\ irq_pc' = "read_yl"
    /\ UNCHANGED <<edges, x_h, x_l, y_l, x, y, events>>
    /\ UNCHANGED <<lifeVars, decVars>>

\* A handler that takes the low byte of Y from slot 2 (TOUCH2_YL, 0x0C).
IrqReadYLFromSlot2 ==
    /\ irq_pc = "read_yl"
    /\ \E ret \in BusReturns :
          /\ y_l' = U8(ret)
          /\ reads' = Append(reads, BusRead(12, ret))
    /\ y' = create_coord(y_h, y_l')
    /\ irq_pc' = "report_x"
    /\ UNCHANGED <<edges, x_h, x_l, y_h, x, events>>
    /\ UNCHANGED <<lifeVars, decVars>>

\* y_l = i2c_smbus_read_byte_data(data.client, TOUCH1_YL);
\* y = create_coord(y_h, y_l);
IrqReadYL ==
    /\ irq_pc = "read_yl"
    /\ \E ret \in BusReturns :
          /\ y_l' = U8(ret)
          /\ reads' = Append(reads, BusRead(TOUCH1_YL, ret))
    /\ y' = create_coord(y_h, y_l')
    /\ irq_pc' = "report_x"
    /\ UNCHANGED <<edges, x_h, x_l, y_h, x, events>>
    /\ UNCHANGED <<lifeVars, decVars>>

\* What a call on data.input can do: with data.input NULL the kernel
\* dereferences a null pointer and oopses; with data.input pointing at a
\* device already freed the call may go through or oops.
SinkOutcomes ==
    IF data_input = "NULL" THEN {"oops"}
    ELSE IF inputDev = "freed" THEN {"ok", "oops"}
    ELSE {"ok"}

\* One call of input_report_abs / input_report_key / input_sync on
\* data.input.
SinkCall(type, code, value, next) ==
    \E out \in SinkOutcomes :
        IF out = "ok"
        THEN /\ events' = Append(events, [type |-> type, code |-> code,
                                          value |-> value,
                                          released |-> Released("input")])
             /\ irq_pc' = next
        ELSE /\ irq_pc' = "oops"
             /\ UNCHANGED events

\* input_report_abs(data.input, ABS_X, x);
IrqReportX ==
    /\ irq_pc = "report_x"
    /\ SinkCall("abs", "ABS_X", x, "report_y")
    /\ UNCHANGED <<edges, x_h, x_l, y_h, y_l, x, y, reads>>
    /\ UNCHANGED <<lifeVars, decVars>>

\* input_report_abs(data.input, ABS_Y, y);
IrqReportY ==
    /\ irq_pc = "report_y"
    /\ SinkCall("abs", "ABS_Y", y, "report_key")
    /\ UNCHANGED <<edges, x_h, x_l, y_h, y_l, x, y, reads>>
    /\ UNCHANGED <<lifeVars, decVars>>

\* input_report_key(data.input, BTN_TOUCH, 1);
IrqReportKey ==
    /\ irq_pc = "report_key"
    /\ SinkCall("key", "BTN_TOUCH", 1, "sync")
    /\ UNCHANGED <<edges, x_h, x_l, y_h, y_l, x, y, reads>>
    /\ UNCHANGED <<lifeVars, decVars>>

\* A handler that disables its own line before it returns.
IrqSyncDisablesLine ==
    /\ irq_pc = "sync"
    /\ SinkCall("sync", "SYN_REPORT", 0, "idle")
    /\ irqDisabled' = TRUE
    /\ UNCHANGED <<edges, x_h, x_l, y_h, y_l, x, y, reads>>
    /\ UNCHANGED <<pc, client, data_input, inputDev, gpioOwner, mtl2_irq,
                   handlerInstalled, probeRet, failedStep, attachLog, acqLog,
                   relLog, detachRaced>>
    /\ UNCHANGED decVars

\* input_sync(data.input);  ...  return IRQ_HANDLED;
IrqSync ==
    /\ irq_pc = "sync"
    /\ SinkCall("sync", "SYN_REPORT", 0, "idle")
    /\ UNCHANGED <<edges, x_h, x_l, y_h, y_l, x, y, reads>>
    /\ UNCHANGED <<lifeVars, decVars>>

(***************************************************************************)
(* Detach: mtl2_touchscreen_exit (lines 219-228).                          *)
(***************************************************************************)
\* rmmod enters the exit function (it can, since init returned 0).
ExitEnter ==
    /\ Running /\ pc = "loaded"
    /\ pc' = "exit_disable_irq"
    /\ detachRaced' = InFlight
    /\ UNCHANGED <<client, data_input, inputDev, gpioOwner, mtl2_irq,
                   handlerInstalled, irqDisabled, probeRet, failedStep,
                   attachLog, acqLog, relLog>>
    /\ UNCHANGED <<irqVars, decVars>>

\* One executed release step; held tells whether the driver held the
\* resource when the step ran.
Release(step, held) == [step |-> step, held |-> held]

\* A disable that does not wait for the handler (disable_irq_nosync).
ExitDisableIrqNoSync ==
    /\ Running /\ pc = "exit_disable_irq"
    /\ irqDisabled' = (irqDisabled \/ mtl2_irq >= 0)
    /\ relLog' = Append(relLog, Release("irq", handlerInstalled))
    /\ pc' = "exit_gpio_free"
    /\ UNCHANGED <<client, data_input, inputDev, gpioOwner, mtl2_irq,
                   handlerInstalled, probeRet, failedStep, attachLog, acqLog,
                   detachRaced>>
    /\ UNCHANGED <<irqVars, decVars>>

\* disable_irq(mtl2_irq);  disables the line and waits for a handler
\* invocation in flight on it; a number that names no line (-1, an errno)
\* is ignored.
ExitDisableIrq ==
    /\ Running /\ pc = "exit_disable_irq"
    /\ mtl2_irq >= 0 => irq_pc = "idle"
    /\ irqDisabled' = (irqDisabled \/ mtl2_irq >= 0)
    /\ relLog' = Append(relLog, Release("irq", handlerInstalled))
    /\ pc' = "exit_gpio_free"
    /\ UNCHANGED <<client, data_input, inputDev, gpioOwner, mtl2_irq,
                   handlerInstalled, probeRet, failedStep, attachLog, acqLog,
                   detachRaced>>
    /\ UNCHANGED <<irqVars, decVars>>

\* An exit function that releases the bus client second, where line 224
\* frees the pin.
ExitClientSecond ==
    /\ Running /\ pc = "exit_gpio_free"
    /\ client' = "released"
    /\ relLog' = Append(relLog, Release("client", client = "held"))
    /\ pc' = "exit_input_unregister"
    /\ UNCHANGED <<gpioOwner, data_input, inputDev, mtl2_irq, handlerInstalled,
                   irqDisabled, probeRet, failedStep, attachLog, acqLog,
                   detachRaced>>
    /\ UNCHANGED <<irqVars, decVars>>

\* gpio_free(INT_GPIO_PIN);  frees the pin whoever reserved it.
ExitGpioFree ==
    /\ Running /\ pc = "exit_gpio_free"
    /\ gpioOwner' = "none"
    /\ relLog' = Append(relLog, Release("gpio", gpioOwner = "self"))
    /\ pc' = "exit_input_unregister"
    /\ UNCHANGED <<client, data_input, inputDev, mtl2_irq, handlerInstalled,
                   irqDisabled, probeRet, failedStep, attachLog, acqLog,
                   detachRaced>>
    /\ UNCHANGED <<irqVars, decVars>>

\* input_unregister_device(data.input);  an oops in the rmmod process
\* kills it there: the rest of the exit function does not run.
ExitInputUnregister ==
    /\ Running /\ pc = "exit_input_unregister"
    /\ relLog' = Append(relLog, Release("input", inputDev = "registered"))
    /\ \E out \in SinkOutcomes :
          IF out = "ok"
          THEN /\ inputDev' = IF inputDev = "registered" THEN "unregistered"
                              ELSE inputDev
               /\ pc' = "exit_i2c_unregister"
          ELSE /\ pc' = "exit_oops"
               /\ UNCHANGED inputDev
    /\ UNCHANGED <<client, data_input, gpioOwner, mtl2_irq, handlerInstalled,
                   irqDisabled, probeRet, failedStep, attachLog, acqLog,
                   detachRaced>>
    /\ UNCHANGED <<irqVars, decVars>>

\* i2c_unregister_device(data.client);  the device goes away, and with it
\* its managed resources: the input device is freed, the interrupt too.
ExitI2cUnregister ==
    /\ Running /\ pc = "exit_i2c_unregister"
    /\ relLog' = Append(relLog, Release("client", client = "held"))
    /\ client' = "released"
    /\ inputDev' = IF inputDev \in {"allocated", "registered", "unregistered"}
                   THEN "freed" ELSE inputDev
    /\ handlerInstalled' = FALSE
    /\ pc' = "exit_del_driver"
    /\ UNCHANGED <<data_input, gpioOwner, mtl2_irq, irqDisabled, probeRet,
                   failedStep, attachLog, acqLog, detachRaced>>
    /\ UNCHANGED <<irqVars, decVars>>

\* i2c_del_driver(&mtl2_touchscreen_driver);
ExitDelDriver ==
    /\ Running /\ pc = "exit_del_driver"
    /\ pc' = "unloaded"
    /\ UNCHANGED <<client, data_input, inputDev, gpioOwner, mtl2_irq,
                   handlerInstalled, irqDisabled, probeRet, failedStep,
                   attachLog, acqLog, relLog, detachRaced>>
    /\ UNCHANGED <<irqVars, decVars>>

(***************************************************************************)
(* Specifications.                                                         *)
(***************************************************************************)
Next ==
    \/ InitNewDevice \/ InitAddDriver \/ InitReturn
    \/ ProbeGpioRequest \/ ProbeGpioToIrq \/ ProbeRequestIrq
    \/ ProbeCheckFunctionality \/ ProbeAllocateDevice \/ ProbeRegisterDevice
    \/ ProbeFallOffEnd \/ DevresReleaseInput \/ DevresFreeIrq
    \/ Edge \/ IrqReadXH \/ IrqReadXL \/ IrqReadYH \/ IrqReadYL
    \/ IrqReportX \/ IrqReportY \/ IrqReportKey \/ IrqSync
    \/ ExitEnter \/ ExitDisableIrq \/ ExitGpioFree \/ ExitInputUnregister
    \/ ExitI2cUnregister \/ ExitDelDriver

Spec == Init /\ [][Next]_vars

\* create_coord called on its own, on every pair of bytes.
InitDecoder ==
    /\ LifeInit /\ gpioOwner = "none"
    /\ IrqInit
    /\ dec_msb \in 0..U8Max
    /\ dec_lsb \in 0..U8Max
    /\ dec_coord = <<>>

DecodeCall ==
    /\ dec_coord = <<>>
    /\ dec_coord' = <<create_coord(dec_msb, dec_lsb)>>
    /\ UNCHANGED <<dec_msb, dec_lsb>>
    /\ UNCHANGED <<lifeVars, irqVars>>

NextDecoder == DecodeCall

SpecDecoder == InitDecoder /\ [][NextDecoder]_vars


(***************************************************************************)
(* Properties.                                                             *)
(***************************************************************************)
IsPrefix(s, t) == Len(s) <= Len(t) /\ \A i \in 1..Len(s) : s[i] = t[i]

Steps(log) == [i \in 1..Len(log) |-> log[i].step]

Acquired(r) == \E i \in 1..Len(acqLog) : acqLog[i] = r

AcqPos(r) == CHOOSE i \in 1..Len(acqLog) : acqLog[i] = r

\* C1: for every pair of bytes, create_coord(high, low) is
\* low | ((high & 0x0F) << 8): bits 0-7 of the result are low, bits 8-11 are
\* the low nibble of high, and bits 4-7 of high do not influence the result.
C1_DecoderContract ==
    dec_coord # <<>> =>
        /\ dec_coord[1] = Decode(dec_msb, dec_lsb)
        /\ (dec_coord[1] % 256) = dec_lsb
        /\ (dec_coord[1] \div 256) = (dec_msb % 16)
        /\ \A hi \in 0..15 :
              create_coord((16 * hi) + (dec_msb % 16), dec_lsb) = dec_coord[1]

C1_Witness ==
    dec_msb = 255 /\ dec_lsb = 0 /\ dec_coord = <<3840>>

\* C2: every handler invocation, once it has ended, has produced exactly
\* the four sink events report_absolute(X), report_absolute(Y),
\* report_key(BTN_TOUCH, pressed), synchronize, in this order (and while it
\* runs, a prefix of them), and no report_key(BTN_TOUCH, released) is ever
\* produced.
C2_EveryInvocationEmitsFrame ==
    /\ \A i \in 1..Len(events) :
          ~(events[i].type = "key" /\ events[i].value = 0)
    /\ IsPrefix([i \in 1..Len(events) |-> <<events[i].type, events[i].code>>],
                <<<<"abs", "ABS_X">>, <<"abs", "ABS_Y">>,
                  <<"key", "BTN_TOUCH">>, <<"sync", "SYN_REPORT">>>>)
    /\ (edges > 0 /\ ~InFlight) =>
          /\ Len(events) = 4
          /\ events[3].value = 1

\* C3: the emitted frame carries absolute-X = decode of the bytes read from
\* registers 0x03 and 0x04 and absolute-Y = decode of the bytes read from
\* registers 0x05 and 0x06; (0x00, 0x64, 0x01, 0x2C) gives X = 100, Y = 300.
C3_FrameCarriesDecodedReads ==
    /\ \A i \in 1..Len(events) :
          /\ events[i].code = "ABS_X" =>
                /\ Len(reads) >= 2
                /\ reads[1].reg = 3 /\ reads[2].reg = 4
                /\ events[i].value = Decode(U8(reads[1].ret), U8(reads[2].ret))
          /\ events[i].code = "ABS_Y" =>
                /\ Len(reads) >= 4
                /\ reads[3].reg = 5 /\ reads[4].reg = 6
                /\ events[i].value = Decode(U8(reads[3].ret), U8(reads[4].ret))
    /\ ( /\ Len(events) >= 2 /\ Len(reads) = 4
         /\ <<reads[1].ret, reads[2].ret, reads[3].ret, reads[4].ret>>
               = <<0, 100, 1, 44>> )
       => events[1].value = 100 /\ events[2].value = 300

C3_Witness ==
    /\ irq_pc = "idle" /\ Len(events) = 4 /\ Len(reads) = 4
    /\ <<reads[1].ret, reads[2].ret, reads[3].ret, reads[4].ret>>
          = <<0, 100, 1, 44>>
    /\ events[1].code = "ABS_X" /\ events[1].value = 100
    /\ events[2].code = "ABS_Y" /\ events[2].value = 300

\* C4: Attach attempts its steps in the order reserve GPIO pin, map pin to
\* interrupt line, install handler, check bus functionality, allocate event
\* sink, register event sink; when a step fails Attach returns an error and
\* the failed step stays the last one attempted; when the GPIO reservation
\* fails nothing else has been mapped, installed, allocated or registered.
C4_AttachStepsInOrder ==
    /\ IsPrefix(attachLog, AttachOrder)
    /\ failedStep # "none" =>
          /\ attachLog # <<>>
          /\ attachLog[Len(attachLog)] = failedStep
          /\ probeRet # <<>> /\ probeRet[1] # 0
    /\ failedStep = "gpio_request" =>
          /\ attachLog = <<"gpio_request">>
          /\ mtl2_irq = -1
          /\ ~handlerInstalled
          /\ data_input = "NULL" /\ inputDev = "none"

C4_Witness ==
    /\ failedStep = "gpio_request" /\ pc = "loaded"
    /\ attachLog = <<"gpio_request">> /\ probeRet = <<-1>>

\* C5: no two different failing Attach steps make Attach return the same
\* error value.
C5_AttachErrorsDistinct ==
    failedStep # "none" =>
        \A i \in 1..Len(AttachOrder) :
            AttachOrder[i] # failedStep =>
                \A e \in RegErrs : <<AttachError(AttachOrder[i], e)>> # probeRet

\* C6: every Detach executes the four release steps exactly once and in the
\* order interrupt line, GPIO pin, event sink, bus client; no outcome of an
\* earlier step makes it skip a later one.
C6_DetachRunsAllFourSteps ==
    /\ IsPrefix(Steps(relLog), DetachOrder)
    /\ pc \in {"exit_oops", "exit_del_driver", "unloaded"} =>
          Steps(relLog) = DetachOrder

\* C7: once Attach has returned, with success or with an error, the bus
\* client handle, the event-sink handle, the GPIO pin reservation and the
\* interrupt line are all held or all absent.
C7_AllHeldOrAllAbsent ==
    (probeRet # <<>> /\ pc \in {"init_return", "loaded"}) =>
        \/ /\ client = "held"
           /\ data_input = "ptr" /\ inputDev \in {"allocated", "registered"}
           /\ gpioOwner = "self"
           /\ mtl2_irq >= 0 /\ handlerInstalled
        \/ /\ client # "held"
           /\ ~(data_input = "ptr" /\ inputDev \in {"allocated", "registered"})
           /\ gpioOwner # "self"
           /\ mtl2_irq < 0 /\ ~handlerInstalled

\* C8: the handler never reads from the bus client handle and never reports
\* to the event-sink handle after Detach has released that handle: once
\* Detach has executed its first step no handler invocation is in flight.
C8_NoUseAfterDetachRelease ==
    /\ \A i \in 1..Len(reads) : ~reads[i].released
    /\ \A i \in 1..Len(events) : ~events[i].released
    /\ relLog # <<>> => ~InFlight

C8_Witness ==
    /\ detachRaced /\ pc = "unloaded"
    /\ Len(reads) = 4 /\ Len(events) = 4
    /\ Steps(relLog) = DetachOrder

\* C9: whenever the handler is installed on the line and an edge can invoke
\* it, the event-sink handle is allocated and registered; no handler
\* invocation runs while the event-sink handle is absent.
C9_InstalledImpliesSetUp ==
    /\ (handlerInstalled /\ ~irqDisabled) =>
          data_input = "ptr" /\ inputDev = "registered"
    /\ InFlight => data_input = "ptr"

\* C10 as stated: Detach releases in the exact reverse of the order of
\* acquisition: a resource acquired later is released before one acquired
\* earlier.
C10_ReleaseReversesAcquisition ==
    \A i, j \in 1..Len(relLog) :
        (i < j /\ Acquired(relLog[i].step) /\ Acquired(relLog[j].step)) =>
            AcqPos(relLog[i].step) > AcqPos(relLog[j].step)

\* C10 as amended: Detach releases in the order interrupt line, GPIO pin,
\* event sink, bus client; a resource acquired later is released before one
\* acquired earlier except for the event sink, which is acquired last and
\* released third, after the interrupt line and the GPIO pin.
C10_ReleaseOrderButSink ==
    /\ IsPrefix(Steps(relLog), DetachOrder)
    /\ \A i, j \in 1..Len(relLog) :
          ( /\ i < j /\ relLog[j].step # "input"
            /\ Acquired(relLog[i].step) /\ Acquired(relLog[j].step) ) =>
              AcqPos(relLog[i].step) > AcqPos(relLog[j].step)
    /\ \A i, j \in 1..Len(relLog) :
          ( /\ i < j /\ relLog[j].step = "input"
            /\ Acquired(relLog[i].step) /\ Acquired("input") ) =>
              AcqPos(relLog[i].step) < AcqPos("input")

C10_Witness ==
    /\ pc = "unloaded"
    /\ acqLog = <<"client", "gpio", "irq", "input">>
    /\ Steps(relLog) = DetachOrder


\* C11: when an Attach step after the GPIO reservation fails, Attach returns
\* the error without releasing what it acquired: right after the return the
\* handler and the event sink are as the failed step found them, and the
\* GPIO pin is still reserved then and until Detach frees it.
C11_FailedAttachKeepsGpio ==
    (failedStep \notin {"none", "gpio_request"}) =>
        /\ pc \in {"devres_input", "devres_irq", "init_return", "loaded",
                   "exit_disable_irq", "exit_gpio_free"} =>
              gpioOwner = "self"
        /\ pc = "devres_input" =>
              /\ handlerInstalled <=>
                    failedStep \in {"check_functionality", "allocate_device",
                                    "register_device"}
              /\ inputDev = IF failedStep = "register_device"
                            THEN "allocated" ELSE "none"
              /\ probeRet # <<>> /\ probeRet[1] < 0

C11_Witness ==
    /\ failedStep = "register_device" /\ pc = "loaded"
    /\ gpioOwner = "self" /\ probeRet = <<-22>>

\* C12: a failed bus read does not stop or alter the pipeline: the negative
\* result is narrowed to its low 8 bits and decoded like a data byte, the
\* remaining reads still run, and the invocation ends with the four-event
\* frame; no invocation ends early or reports an error because of a read
\* (one that ends early does so on a call on an absent event sink).
C12_FailedReadGoesThrough ==
    /\ Len(reads) >= 1 => x_h = reads[1].ret % 256
    /\ Len(reads) >= 2 => x_l = reads[2].ret % 256
    /\ Len(reads) >= 3 => y_h = reads[3].ret % 256
    /\ Len(reads) >= 4 => y_l = reads[4].ret % 256
    /\ Len(reads) = CASE irq_pc = "read_xh" -> 0
                      [] irq_pc = "read_xl" -> 1
                      [] irq_pc = "read_yh" -> 2
                      [] irq_pc = "read_yl" -> 3
                      [] OTHER -> IF edges = 0 THEN 0 ELSE 4
    /\ \A i \in 1..Len(events) :
          /\ events[i].type \in {"abs", "key", "sync"}
          /\ events[i].code = "ABS_X" =>
                events[i].value = Decode(reads[1].ret % 256, reads[2].ret % 256)
          /\ events[i].code = "ABS_Y" =>
                events[i].value = Decode(reads[3].ret % 256, reads[4].ret % 256)
    /\ (edges > 0 /\ irq_pc = "idle") => Len(events) = 4
    /\ irq_pc = "oops" => (data_input = "NULL" \/ inputDev = "freed")

C12_Witness ==
    /\ irq_pc = "idle" /\ Len(reads) = 4 /\ Len(events) = 4
    /\ reads[1].ret = -5 /\ reads[2].ret = 100 /\ reads[3].ret = 1
    /\ reads[4].ret = -5
    /\ x_h = 251 /\ y_l = 251
    /\ events[1].value = 2916 /\ events[2].value = 507

\* C13: every handler invocation issues exactly four bus reads, each once
\* and in the order 0x03, 0x04, 0x05, 0x06, all before the first sink event;
\* no other register is ever read.
C13_FourReadsInOrder ==
    /\ IsPrefix([i \in 1..Len(reads) |-> reads[i].reg], <<3, 4, 5, 6>>)
    /\ events # <<>> => Len(reads) = 4
    /\ (edges > 0 /\ ~InFlight) => Len(reads) = 4
    /\ irq_pc \in {"report_x", "report_y", "report_key", "sync"} =>
          Len(reads) = 4

C13_Witness ==
    /\ irq_pc = "idle" /\ edges = 1 /\ Len(events) = 4
    /\ [i \in 1..Len(reads) |-> reads[i].reg] = <<3, 4, 5, 6>>


\* C14: Detach releases only what is held: it does not disable an interrupt
\* line the driver has no handler on (line id -1 included), does not free a
\* GPIO pin the driver has not reserved, and does not unregister an event
\* sink that is absent or not registered.
C14_DetachReleasesOnlyHeld ==
    \A i \in 1..Len(relLog) :
        relLog[i].step \in {"irq", "gpio", "input"} => relLog[i].held

\* C15: when all six Attach steps succeed, Attach returns 0, and then the
\* GPIO pin is reserved, the handler installed and the event sink
\* registered.
C15_SuccessReturnsZero ==
    (failedStep = "none" /\ probeRet # <<>>) =>
        /\ probeRet = <<0>>
        /\ pc \in {"init_return", "loaded"} =>
              /\ gpioOwner = "self"
              /\ handlerInstalled /\ ~irqDisabled
              /\ data_input = "ptr" /\ inputDev = "registered"

\* The lifecycle state a handler invocation could touch.
LifecycleState == <<client, data_input, inputDev, mtl2_irq, gpioOwner,
                    handlerInstalled, irqDisabled>>

Armed == handlerInstalled /\ ~irqDisabled

\* C16 as stated: no step of a handler invocation changes the bus client
\* handle, the event-sink handle, the interrupt line id, the GPIO
\* reservation or the installed/armed status, and the armed status is lost
\* only through Detach.
C16_OnlyDetachDisarms ==
    [][ /\ irq_pc' # irq_pc => UNCHANGED LifecycleState
        /\ (Armed /\ ~Armed') => pc = "exit_disable_irq" ]_vars

\* C16 as amended: no step of a handler invocation changes the lifecycle
\* state, and the armed status is lost only through lifecycle code: Detach
\* (disable_irq), or the release of the managed interrupt after a failed
\* Attach.
C16_HandlerLeavesLifecycle ==
    [][ /\ irq_pc' # irq_pc => UNCHANGED LifecycleState
        /\ (Armed /\ ~Armed') => pc \in {"exit_disable_irq", "devres_irq"} ]_vars

C16_Witness ==
    /\ irq_pc = "idle" /\ edges = 1 /\ Len(events) = 4
    /\ pc = "loaded" /\ Armed /\ inputDev = "registered"
    /\ probeRet = <<0>>

\* The decoder on its useful range: high in 0..15, low in 0..255.
UsefulPairs == (0..15) \X (0..255)

DecodeTable == [p \in UsefulPairs |-> create_coord(p[1], p[2])]

DecodeRange == {DecodeTable[p] : p \in UsefulPairs}

\* C17: on high in 0..15 and low in 0..255 no two different pairs decode to
\* the same value (the 4096 pairs have 4096 different results, and each pair
\* is recovered from its result) and the results are exactly 0..4095;
\* decode(0,0) = 0,
\* decode(0x0F,0xFF) = 4095, and changing only bits 4-7 of high leaves the
\* result unchanged (decode(0x10,0x00) = 0).
C17_DecoderInjective ==
    /\ create_coord(0, 0) = 0
    /\ create_coord(15, 255) = 4095
    /\ create_coord(16, 0) = 0
    /\ DecodeRange = 0..4095
    /\ Cardinality(DecodeRange) = Cardinality(UsefulPairs)
    /\ dec_coord # <<>> =>
          /\ create_coord(dec_msb % 16, dec_lsb) = dec_coord[1]
          /\ dec_msb <= 15 =>
                /\ DecodeTable[<<dec_msb, dec_lsb>>] = dec_coord[1]
                /\ <<dec_coord[1] \div 256, dec_coord[1] % 256>>
                      = <<dec_msb, dec_lsb>>

C17_Witness ==
    dec_msb = 15 /\ dec_lsb = 255 /\ dec_coord = <<4095>>

=============================================================================
